---- MODULE Spec2Model ----
(***************************************************************************)
(* State-machine model of socrata_to_bigquery: the resumable, bounded-     *)
(* concurrency sync pipeline (sync.go, concurrent_limit.go) and the        *)
(* schema-driven record transform (transform.go, transform_download.go).   *)
(***************************************************************************)
EXTENDS Integers, Sequences, FiniteSets, TLC

\* ------------------------------------------------------------------------
\* Bounds of the model
\* ------------------------------------------------------------------------

\* Width of the unsigned words (uint64 in the program, scaled down so that
\* wrap-around is reachable): all uint64 arithmetic is done modulo 2^UintBits.
UintBits == 2

\* Largest upstream / warehouse row count drawn as an input.
MaxCount == 3

\* Largest page size drawn as an input.
MaxPage == 2

\* Cap on the number of goroutines the dispatch loop may start.
MaxChunks == 3

\* Latest warehouse watermark drawn as an input, in ticks.
MaxTick == 1

\* ------------------------------------------------------------------------
\* Program constants
\* ------------------------------------------------------------------------

\* NewConcurrentLimit(2)
Capacity == 2

\* for i := 0; i < 3; i++
MaxTries == 3

\* Ticks in one time.Second: time.Time is finer than the whole seconds that
\* time.RFC3339 prints.
TicksPerSec == 2

Modulus == 2 ^ UintBits

Min(a, b) == IF a < b THEN a ELSE b

\* uint64 values that fit the word
Counts == 0 .. Min(MaxCount, Modulus - 1)

PageSizes == 1 .. Min(MaxPage, Modulus - 1)

\* The zero time.Time (r.Created.IsZero())
NoTime == -1

\* cf.BigQuery.WhereFilter: empty, or one opaque user predicate
WhereFilters == {<<>>, <<[k |-> "user", sec |-> 0]>>}

VARIABLES
    pc,           \* position of syncOne's own goroutine
    fatal,        \* log.Fatal was called: the process has exited
    sodataCount,  \* sodareq.Count()
    NumRows,      \* tmd.NumRows
    pageSize,     \* syncOne's pageSize argument
    WhereFilter,  \* cf.BigQuery.WhereFilter
    maxCreated,   \* the warehouse's max(_created_at), NoTime when NULL
    missing,      \* missing
    where,        \* where
    queried,      \* number of watermark queries run
    n,            \* the dispatch loop's n
    chunks,       \* one record per goroutine started by the dispatch loop
    throttle,     \* number of values buffered in throttle.c
    wg,           \* the WaitGroup counter
    last,         \* the most recent CopyChunk call: its arguments and how it went
    variant,      \* "keyed": Transform/TransformOne, "list": TransformDownload/TransformOneList
    schema,       \* the TableSchema: field name -> SchemaField
    tpc,          \* position of Transform in its stream
    trows,        \* Transform's rows counter
    sink,         \* the numbers of the rows encoded to the writer, in order
    tlast,        \* the row decoded last and what TransformOne made of it
    terr,         \* the error Transform returned
    skipped,      \* number of rows for which TransformOne returned no record
    dpc,          \* position of downloadOne / Download
    dres,         \* how the Download call went and what downloadOne reported
    tt,           \* a ToTime call: its format, its input and what it returned
    lcap,         \* capacity of a ConcurrentLimit used on its own
    lslots,       \* number of values buffered in its channel
    callers       \* the goroutines calling Run / RunWithTimeout on it

syncvars == <<pc, fatal, sodataCount, NumRows, pageSize, WhereFilter, maxCreated,
              missing, where, queried, n, chunks, throttle, wg, last>>

tvars == <<variant, schema, tpc, trows, sink, tlast, terr, skipped>>

dvars == <<dpc, dres>>

\* What the sync pipeline leaves alone, and what the transform leaves alone
lvars == <<lcap, lslots, callers>>

besideSync == <<tvars, dvars, tt, lvars>>

besideTransform == <<syncvars, tt, lvars>>

vars == <<syncvars, tvars, dvars, tt, lvars>>

inputs == <<sodataCount, NumRows, pageSize, WhereFilter, maxCreated>>

\* ------------------------------------------------------------------------
\* uint64 arithmetic
\* ------------------------------------------------------------------------

USub(a, b) == (a - b) % Modulus

UAdd(a, b) == (a + b) % Modulus

\* ------------------------------------------------------------------------
\* syncOne, up to the dispatch loop
\* ------------------------------------------------------------------------

\* No ToTime call is studied on its own
ToTimeIdle == tt = [called |-> FALSE]

\* No ConcurrentLimit is studied on its own
LimitIdle ==
    /\ lcap = 0
    /\ lslots = 0
    /\ callers = <<>>

HelpersIdle == ToTimeIdle /\ LimitIdle

\* No Transform is under way
TransformIdle ==
    /\ variant = "keyed"
    /\ schema = <<>>
    /\ tpc = "idle"
    /\ trows = 0
    /\ sink = <<>>
    /\ tlast = [row |-> 0]
    /\ terr = "nil"
    /\ skipped = 0
    /\ dpc = "none"
    /\ dres = [at |-> "none"]

\* missing := uint64(sodataCount) - tmd.NumRows
Missing(source, target) == USub(source, target)

\* No CopyChunk call has been made
NoCall == [c |-> 0]

Init ==
    /\ pc = "count"
    /\ fatal = FALSE
    /\ sodataCount \in Counts
    /\ NumRows \in Counts
    /\ pageSize \in PageSizes
    /\ WhereFilter \in WhereFilters
    /\ maxCreated \in {NoTime} \cup (0 .. MaxTick)
    /\ (NumRows = 0 => maxCreated = NoTime)
    \* runs of more than one chunk are drawn with the plain filter inputs
    /\ \/ Missing(sodataCount, NumRows) <= pageSize
       \/ WhereFilter = <<>> /\ maxCreated = (IF NumRows = 0 THEN NoTime ELSE 0)
    /\ missing = 0
    /\ where = <<>>
    /\ queried = 0
    /\ n = 0
    /\ chunks = <<>>
    /\ throttle = 0
    /\ wg = 0
    /\ last = NoCall
    /\ TransformIdle
    /\ HelpersIdle

\* Mutant of ResumeCount: a missing count of 0 does not return early
ResumeCount_NoEarlyReturn ==
    /\ pc = "count"
    /\ ~fatal
    /\ missing' = Missing(sodataCount, NumRows)
    /\ pc' = IF sodataCount = 0 THEN "returned" ELSE "watermark"
    /\ UNCHANGED <<fatal, inputs, where, queried, n, chunks, throttle, wg, last, besideSync>>

\* sync.go 85-96: the missing count and the two early returns
ResumeCount ==
    /\ pc = "count"
    /\ ~fatal
    /\ missing' = Missing(sodataCount, NumRows)
    /\ pc' = IF sodataCount = 0 THEN "returned"
             ELSE IF missing' = 0 THEN "complete"
             ELSE "watermark"
    /\ UNCHANGED <<fatal, inputs, where, queried, n, chunks, throttle, wg, last, besideSync>>

\* Mutant of CreatedSec: the second is not added
CreatedSec_NoAdd(created) == created \div TicksPerSec

\* r.Created.Add(time.Second).Format(time.RFC3339): whole seconds
CreatedSec(created) == (created + TicksPerSec) \div TicksPerSec

\* ":created_at >= '...'"
CreatedFilter(created) == [k |-> "ge", sec |-> CreatedSec(created)]

\* where == "" ? createdFilter : where + " and " + createdFilter
AndWhere(w, clause) == IF w = <<>> THEN <<clause>> ELSE Append(w, clause)

\* sync.go 98-132: the resume filter
Watermark ==
    /\ pc = "watermark"
    /\ ~fatal
    /\ IF NumRows > 0
       THEN \/ /\ queried' = queried + 1
               /\ where' = IF maxCreated # NoTime
                           THEN AndWhere(WhereFilter, CreatedFilter(maxCreated))
                           ELSE WhereFilter
               /\ pc' = "dispatch"
               /\ UNCHANGED fatal
            \/ \* q.Read or it.Next failed: log.Fatal
               /\ queried' = queried + 1
               /\ fatal' = TRUE
               /\ UNCHANGED <<where, pc>>
       ELSE /\ where' = WhereFilter
            /\ pc' = "dispatch"
            /\ UNCHANGED <<queried, fatal>>
    /\ UNCHANGED <<inputs, missing, n, chunks, throttle, wg, last, besideSync>>

\* ------------------------------------------------------------------------
\* The dispatch loop and the bounded executor
\* ------------------------------------------------------------------------

\* A goroutine `go throttle.Run(func() {...})` that has not yet got a slot
NewChunk(offset) ==
    [offset |-> offset, st |-> "waiting", i |-> 0, remain |-> 0]

\* sync.go 141-144, 162: one iteration of the dispatch loop
Dispatch ==
    /\ pc = "dispatch"
    /\ ~fatal
    /\ n < missing
    /\ Len(chunks) < MaxChunks
    /\ wg' = wg + 1
    /\ chunks' = Append(chunks, NewChunk(n))
    /\ n' = UAdd(n, pageSize)
    /\ UNCHANGED <<pc, fatal, inputs, missing, where, queried, throttle, last, besideSync>>

\* sync.go 141: the loop condition fails
DispatchDone ==
    /\ pc = "dispatch"
    /\ ~fatal
    /\ ~(n < missing)
    /\ pc' = "wait"
    /\ UNCHANGED <<fatal, inputs, missing, where, queried, n, chunks, throttle, wg,
                   last, besideSync>>

\* Mutant of Wait: wg.Wait() returns whatever the counter is
Wait_NoBarrier ==
    /\ pc = "wait"
    /\ ~fatal
    /\ pc' = "complete"
    /\ UNCHANGED <<fatal, inputs, missing, where, queried, n, chunks, throttle, wg,
                   last, besideSync>>

\* sync.go 163-164: wg.Wait() returns, "Sync Complete"
Wait ==
    /\ pc = "wait"
    /\ ~fatal
    /\ wg = 0
    /\ pc' = "complete"
    /\ UNCHANGED <<fatal, inputs, missing, where, queried, n, chunks, throttle, wg,
                   last, besideSync>>

\* Mutant of CanAcquire: the send never blocks
CanAcquire_Unbounded == TRUE

\* c.c <- true can proceed: the buffered channel is not full
CanAcquire == throttle < Capacity

\* sync.go 145-148
Remain(offset) ==
    IF UAdd(offset, pageSize) > missing THEN USub(missing, offset) ELSE pageSize

\* concurrent_limit.go 17-18, sync.go 145-149: the slot is taken, the task
\* body starts and computes its window
Acquire(c) ==
    /\ ~fatal
    /\ chunks[c].st = "waiting"
    /\ CanAcquire
    /\ throttle' = throttle + 1
    /\ chunks' = [chunks EXCEPT ![c] =
                    [@ EXCEPT !.st = "running", !.i = 0,
                              !.remain = Remain(chunks[c].offset)]]
    /\ UNCHANGED <<pc, fatal, inputs, missing, where, queried, n, wg, last, besideSync>>

\* Mutant of Release: the value is left in the channel
Release_KeepsSlot(c) ==
    /\ ~fatal
    /\ chunks[c].st = "finished"
    /\ throttle' = throttle
    /\ chunks' = [chunks EXCEPT ![c] = [@ EXCEPT !.st = "done", !.i = 0]]
    /\ UNCHANGED <<pc, fatal, inputs, missing, where, queried, n, wg, last, besideSync>>

\* concurrent_limit.go 19: <-c.c after the task body returned
Release(c) ==
    /\ ~fatal
    /\ chunks[c].st = "finished"
    /\ throttle' = throttle - 1
    /\ chunks' = [chunks EXCEPT ![c] = [@ EXCEPT !.st = "done", !.i = 0]]
    /\ UNCHANGED <<pc, fatal, inputs, missing, where, queried, n, wg, last, besideSync>>

\* ------------------------------------------------------------------------
\* CopyChunk
\* ------------------------------------------------------------------------

\* Errors of an opaque library call, as errors.Is(err, io.EOF) tells them apart
IOErrors == {"eof", "other"}

\* The paths through one CopyChunk call: the step that returns an error (or
\* "none"), the error, and whether the rows != 0 branch was entered.
Outcomes ==
    \* sync.go 184-187: http.DefaultClient.Do
    {[at |-> "do", err |-> e, queued |-> FALSE] : e \in IOErrors}
    \* sync.go 188-190: resp.StatusCode >= 400
    \cup {[at |-> "status", err |-> "other", queued |-> FALSE]}
    \* sync.go 204-211: gw.Close / w.Close
    \cup {[at |-> "close", err |-> e, queued |-> FALSE] : e \in IOErrors}
    \* sync.go 200, 213-215: Transform's error
    \cup {[at |-> "transform", err |-> e, queued |-> FALSE] : e \in IOErrors}
    \* sync.go 217, 226-238: loader.Run, loadJob.Wait, status.Err
    \cup {[at |-> "load", err |-> e, queued |-> TRUE] : e \in IOErrors}
    \* sync.go 245-247: obj.Delete
    \cup {[at |-> "delete", err |-> e, queued |-> b] : e \in IOErrors, b \in BOOLEAN}
    \cup {[at |-> "none", err |-> "nil", queued |-> b] : b \in BOOLEAN}

\* Mutant of Steps: the load is started although Transform returned an error
Steps_LoadAfterError(o) ==
    CASE o.at \in {"do", "status"} -> <<"fetch">>
      [] o.at = "close" -> <<"fetch", "transform", "close">>
      [] o.at = "transform" -> <<"fetch", "transform", "close", "load">>
      [] o.at = "load" -> <<"fetch", "transform", "close", "load">>
      [] OTHER -> IF o.queued
                  THEN <<"fetch", "transform", "close", "load", "delete">>
                  ELSE <<"fetch", "transform", "close", "delete">>

\* The steps of CopyChunk that ran, in order, on path o
Steps(o) ==
    CASE o.at \in {"do", "status"} -> <<"fetch">>
      [] o.at \in {"close", "transform"} -> <<"fetch", "transform", "close">>
      [] o.at = "load" -> <<"fetch", "transform", "close", "load">>
      [] OTHER -> IF o.queued
                  THEN <<"fetch", "transform", "close", "load", "delete">>
                  ELSE <<"fetch", "transform", "close", "delete">>

\* w.Close() succeeded: the staging object exists
Staged(o) == o.at \notin {"do", "status", "close"}

\* sync.go 217-238: the load job ran to the end without error
Loaded(o) == o.at \in {"delete", "none"} /\ o.queued

\* sync.go 245: obj.Delete succeeded
Deleted(o) == o.at = "none"

\* Mutant of StagingName: the name is the second's directory alone
StagingName_NoOffset(sec, offset) == <<sec, 0>>

\* sync.go 193: socrata_to_bigquery/<second>/<dataset>-<offset>.json.gz
StagingName(sec, offset) == <<sec, offset>>

\* The seconds time.Now() can show while a run's chunks are copied
Seconds == 0 .. MaxTick

\* sync.go 193, 219-224: the staging object is named after the chunk's
\* offset, and the load job reads that object with WriteAppend. The call's
\* record keeps the offset of the name it used; the second in the name is
\* whatever time.Now() shows (StagingName).
LoadRequest(o, offset) ==
    [started |-> \E k \in 1 .. Len(Steps(o)) : Steps(o)[k] = "load",
     object |-> offset, disposition |-> "WriteAppend"]

\* Mutant of IsEOF: every error is taken for a transient one
IsEOF_AnyError(err) == err # "nil"

\* errors.Is(err, io.EOF)
IsEOF(err) == err = "eof"

\* sync.go 149-160: what the retry loop does with CopyChunk's result.
\* "retry": continue with another call; "fatal": log.Fatal; "done": the loop
\* is left and wg.Done() runs.
Verdict(i, err) ==
    IF IsEOF(err)
    THEN IF i + 1 < MaxTries THEN "retry" ELSE "done"
    ELSE IF err # "nil" THEN "fatal" ELSE "done"

\* sync.go 149-160 and 168-249: one turn of the retry loop, a whole
\* CopyChunk call that goes as o
CopyChunk(c) ==
    /\ ~fatal
    /\ chunks[c].st = "running"
    /\ chunks[c].i < MaxTries
    /\ \E o \in Outcomes :
          LET ch == chunks[c]
              v == Verdict(ch.i, o.err)
          IN  /\ last' = [c |-> c, attempt |-> ch.i, offset |-> ch.offset,
                          limit |-> ch.remain, where |-> where, at |-> o.at,
                          err |-> o.err, queued |-> o.queued, steps |-> Steps(o),
                          staging |-> ch.offset, load |-> LoadRequest(o, ch.offset)]
              /\ chunks' = [chunks EXCEPT ![c] =
                    [ch EXCEPT !.i = IF IsEOF(o.err) THEN ch.i + 1 ELSE ch.i,
                               !.st = IF v = "done" THEN "finished" ELSE "running"]]
              /\ wg' = IF v = "done" THEN wg - 1 ELSE wg
              /\ fatal' = (v = "fatal")
    /\ UNCHANGED <<pc, inputs, missing, where, queried, n, throttle, besideSync>>

Next ==
    \/ ResumeCount
    \/ Watermark
    \/ Dispatch
    \/ DispatchDone
    \/ Wait
    \/ \E c \in 1 .. Len(chunks) :
          \/ Acquire(c)
          \/ CopyChunk(c)
          \/ Release(c)

Spec == Init /\ [][Next]_vars

\* ------------------------------------------------------------------------
\* Claims about the sync pipeline
\* ------------------------------------------------------------------------

\* Chunks whose task body holds a slot: between c.c <- true and <-c.c
Holding == {c \in 1 .. Len(chunks) : chunks[c].st \in {"running", "finished"}}

\* Chunks that have computed their window and passed it to CopyChunk
Started == {c \in 1 .. Len(chunks) : chunks[c].st # "waiting"}

\* C1: with a ConcurrentLimit of capacity 2 shared by all the chunk
\* goroutines, at most 2 task bodies (and so at most 2 CopyChunk calls) are
\* between slot acquisition and slot release, however many chunks were
\* dispatched.
C1_ConcurrencyBound == Cardinality(Holding) <= Capacity

\* C1 witness: the bound binds; two chunks hold the slots and a third waits.
C1_Witness ==
    /\ Cardinality(Holding) = Capacity
    /\ \E c \in 1 .. Len(chunks) : chunks[c].st = "waiting"

\* C2: the windows passed to CopyChunk have offsets 0, pageSize, 2*pageSize,
\* ..., are pairwise disjoint, stay inside [0, missing) with limit pageSize
\* except for a last one of limit missing - offset, and cover [0, missing)
\* once the dispatch loop has ended.
C2_WindowsPartition ==
    /\ \A c \in 1 .. Len(chunks) : chunks[c].offset = (c - 1) * pageSize
    /\ \A c \in Started :
          /\ chunks[c].offset + chunks[c].remain <= missing
          /\ chunks[c].remain = Min(pageSize, missing - chunks[c].offset)
    /\ pc \in {"wait", "complete"} => Len(chunks) * pageSize >= missing

\* C3: a chunk whose CopyChunk failed with an io.EOF error on each of its 3
\* attempts makes the run fatal; syncOne does not go on to "Sync Complete".
C3_ExhaustionIsFatal ==
    \A c \in 1 .. Len(chunks) : chunks[c].i = MaxTries => fatal

\* C4: a CopyChunk call that returns an error which is not io.EOF aborts the
\* run at once: the process is fatal, the chunk's retry counter is where the
\* call found it and "Sync Complete" is not reported.
C4_OtherErrorAborts ==
    (last.c # 0 /\ last.err = "other") =>
        /\ fatal
        /\ pc # "complete"
        /\ chunks[last.c].st = "running"
        /\ chunks[last.c].i = last.attempt

\* C4 witness: a transform error that is not io.EOF has aborted the run.
C4_Witness == last.c # 0 /\ last.err = "other" /\ last.at = "transform" /\ fatal

\* C5: when the missing count is 0 or the upstream count is 0, syncOne ends
\* successfully with no chunk dispatched, no CopyChunk call (no fetch, no
\* staging object, no load) and no watermark query.
C5_NothingToDo ==
    (pc # "count" /\ (missing = 0 \/ sodataCount = 0)) =>
        /\ pc \in {"returned", "complete"}
        /\ ~fatal
        /\ chunks = <<>>
        /\ last = NoCall
        /\ queried = 0

\* C5 witness: a table that already holds every upstream row.
C5_Witness == pc = "complete" /\ missing = 0 /\ sodataCount > 0 /\ NumRows > 0

\* C6: the missing count that drives the dispatch is sourceCount -
\* targetCount and never exceeds sourceCount, also when targetCount >
\* sourceCount.
C6_MissingIsDifference ==
    pc = "dispatch" =>
        /\ missing = sodataCount - NumRows
        /\ missing <= sodataCount

\* Upstream rows: whether the row satisfies the user's predicate and the
\* tick it was created at
Rows == [user : BOOLEAN, created : 0 .. (MaxTick + 2 * TicksPerSec)]

\* The upstream's reading of a $where expression
Selects(w, row) ==
    \A k \in 1 .. Len(w) :
        IF w[k].k = "user" THEN row.user
        ELSE row.created >= w[k].sec * TicksPerSec

\* The user-supplied filter alone
UserSelects(row) == WhereFilter = <<>> \/ row.user

SecondOf(t) == t - (t % TicksPerSec)

MaxRows == 2

\* OnError values of schema.go
SkipValue == "SKIP_VALUE"

SkipRow == "SKIP_ROW"

RaiseError == "ERROR"

\* on_error as a configuration file can give it: the three values, or unset
OnErrors == {SkipValue, SkipRow, "", RaiseError}

\* The two target fields of the schemas drawn
Fields == {"a", "b"}

\* Transform reads keyed records, TransformDownload positional ones
Variants == {"keyed", "list"}

\* (target type, source type) pairs drawn for field "a"
Conversions ==
    { <<"NUMERIC", "text">>, <<"NUMERIC", "number">>, <<"STRING", "text">>,
      <<"STRING", "url">>, <<"STRING", "point">>, <<"GEOGRAPHY", "point">>,
      <<"GEOGRAPHY", "text">>, <<"DATE", "text">>, <<"TIME", "text">>,
      <<"TIMESTAMP", "calendar_date">>, <<"TIMESTAMP", "json.Number">>,
      <<"BOOLEAN", "checkbox">>, <<"BYTES", "text">> }

\* Field "b" is a required DATE read from text, under each policy
ConversionsB == { <<"DATE", "text">> }

SchemaField(conv, required, onError) ==
    [Type |-> conv[1], SourceFieldType |-> conv[2],
     Required |-> required, OnError |-> onError]

\* TableSchema: target field name -> SchemaField
TableSchemas ==
    { [f \in Fields |-> IF f = "a" THEN da ELSE db] :
        da \in { SchemaField(c, r, e) :
                   c \in Conversions, r \in BOOLEAN, e \in OnErrors },
        db \in { SchemaField(c, TRUE, e) :
                   c \in ConversionsB, e \in {SkipValue, SkipRow, RaiseError} } }

\* What the JSON decoder can hand over for a column of a source type:
\* "nil" is null or an absent key, "empty" the empty string, "ok" a
\* well-formed string, "bad" a malformed one, "obj" an object or list,
\* "num" an integer json.Number, "frac" a json.Number that is no int64.
SourceValues(sourceFieldType) ==
    CASE sourceFieldType = "text" -> {"nil", "empty", "ok", "bad"}
      [] sourceFieldType = "number" -> {"nil", "empty", "ok"}
      [] sourceFieldType \in {"url", "point"} -> {"nil", "obj"}
      [] sourceFieldType = "calendar_date" -> {"nil", "ok"}
      [] sourceFieldType = "json.Number" -> {"num", "frac"}
      [] sourceFieldType = "checkbox" -> {"nil", "true"}
      [] OTHER -> {"nil"}

\* Records of the upstream that fit the schema's source types
Records(s) ==
    { m \in [Fields -> {"nil", "empty", "ok", "bad", "obj", "num", "frac", "true"}] :
        \A f \in Fields : m[f] \in SourceValues(s[f].SourceFieldType) }

\* sv, ok := sourceValue.(string)
IsString(v) == v \in {"empty", "ok", "bad"}

\* Results of one field's conversion: whether out[fieldName] was assigned,
\* to what, the per-field err, and a return or panic that leaves the
\* function before the on_error switch.
Got(val) == [set |-> TRUE, val |-> val, err |-> "none", stop |-> "none"]

Unset == [set |-> FALSE, val |-> "unset", err |-> "none", stop |-> "none"]

Failed(val, err) == [set |-> TRUE, val |-> val, err |-> err, stop |-> "none"]

FailedUnset(err) == [set |-> FALSE, val |-> "unset", err |-> err, stop |-> "none"]

\* Mutant of Stopped: the condition is a per-field error, left to on_error
Stopped_AsFieldError(stop) == [set |-> FALSE, val |-> "unset", err |-> stop, stop |-> "none"]

Stopped(stop) == [set |-> FALSE, val |-> "unset", err |-> "none", stop |-> stop]

\* strconv.ParseFloat(strings.ReplaceAll(s, ",", ""), 64)
ParseFloat(s) == IF s = "ok" THEN Got("float") ELSE Failed("zero", "parse")

ToGeoJSON(v) == IF v = "nil" THEN Got("nil") ELSE Got("geojson")

\* ToGeoJSONPoint of the positional variant
ToGeoJSONPoint(v) == IF v = "nil" THEN Got("nil") ELSE Got("geojson")

ToDate(s) ==
    CASE s = "empty" -> Got("nil")
      [] s = "ok" -> Got("date")
      [] OTHER -> Failed("nil", "parse")

ToTime(s) ==
    CASE s = "empty" -> Got("nil")
      [] s = "ok" -> Got("time")
      [] OTHER -> Failed("nil", "parse")

\* "missing required field %q"
MissingRequired(d, v) == d.Required /\ v \in {"nil", "empty"}

\* Mutant of CoerceNumeric: a required field with a null source is missing
CoerceNumeric_RequiredCheck(d, v) ==
    IF d.Required /\ v = "nil" THEN FailedUnset("missing")
    ELSE IF d.SourceFieldType = "text"
    THEN IF v = "nil" THEN Unset
         ELSE IF ~IsString(v) THEN Stopped("panic")
         ELSE ParseFloat(v)
    ELSE Got(v)

\* The NUMERIC case of TransformOne's type switch
CoerceNumeric(d, v) ==
    IF d.SourceFieldType = "text"
    THEN IF v = "nil" THEN Unset
         ELSE IF ~IsString(v) THEN Stopped("panic")
         ELSE ParseFloat(v)
    ELSE Got(v)

\* The type switch of TransformOne for one field
CoerceKeyed(d, v) ==
    CASE d.Type = "NUMERIC" -> CoerceNumeric(d, v)
      [] d.Type = "STRING" ->
           CASE d.SourceFieldType = "url" ->
                  IF v = "obj" THEN Got("url") ELSE Stopped("panic")
             [] d.SourceFieldType \in {"text", ""} ->
                  IF MissingRequired(d, v) THEN Failed(v, "missing") ELSE Got(v)
             [] OTHER -> Stopped("unhandled conversion")
      [] d.Type = "GEOGRAPHY" ->
           IF d.SourceFieldType = "point" THEN ToGeoJSON(v)
           ELSE Stopped("unhandled conversion")
      [] d.Type = "DATE" ->
           IF v # "nil"
           THEN IF ~IsString(v) THEN Stopped("panic")
                ELSE LET r == ToDate(v)
                     IN IF d.Required /\ r.val = "nil" /\ r.err = "none"
                        THEN Failed(r.val, "missing")
                        ELSE r
           ELSE IF d.Required THEN FailedUnset("missing") ELSE Unset
      [] d.Type = "TIME" ->
           IF v # "nil"
           THEN IF ~IsString(v) THEN Stopped("panic") ELSE ToTime(v)
           ELSE IF d.Required THEN FailedUnset("missing") ELSE Unset
      [] d.Type = "TIMESTAMP" -> Got(v)
      [] OTHER -> Stopped("unhandled type")

\* The type switch of TransformOneList for one column
CoerceList(d, v) ==
    CASE d.Type \in {"NUMERIC", "FLOAT"} ->
           IF d.SourceFieldType = "number"
           THEN IF IsString(v) /\ v # "empty" THEN Got("number") ELSE Unset
           ELSE Got(v)
      [] d.Type = "STRING" ->
           CASE d.SourceFieldType = "url" ->
                  IF v = "obj" THEN Got("url") ELSE Stopped("panic")
             [] d.SourceFieldType \in {"text", ""} ->
                  IF MissingRequired(d, v)
                  THEN IF v = "nil" THEN FailedUnset("missing") ELSE Failed(v, "missing")
                  ELSE IF v = "nil" THEN Unset ELSE Got(v)
             [] OTHER -> Stopped("unhandled conversion")
      [] d.Type = "GEOGRAPHY" ->
           IF d.SourceFieldType = "point" THEN ToGeoJSONPoint(v)
           ELSE Stopped("unhandled conversion")
      [] d.Type = "DATE" ->
           IF v # "nil"
           THEN IF ~IsString(v) THEN Stopped("panic")
                ELSE LET r == ToDate(v)
                     IN IF d.Required /\ r.val = "nil" /\ r.err = "none"
                        THEN Failed(r.val, "missing")
                        ELSE r
           ELSE IF d.Required THEN FailedUnset("missing") ELSE Unset
      [] d.Type = "TIME" ->
           IF v # "nil"
           THEN IF ~IsString(v) THEN Stopped("panic") ELSE ToTime(v)
           ELSE IF d.Required THEN FailedUnset("missing") ELSE Unset
      [] d.Type \in {"TIMESTAMP", "DATETIME"} ->
           IF d.SourceFieldType = "json.Number"
           THEN CASE v = "num" -> Got("rfc3339")
                  [] v = "frac" -> FailedUnset("parse")
                  [] OTHER -> Stopped("panic")
           ELSE Got(v)
      [] d.Type = "BOOLEAN" ->
           IF v = "true" THEN Got("true") ELSE Stopped("panic")
      [] OTHER -> Stopped("unhandled type")

Coerce(var, d, v) == IF var = "keyed" THEN CoerceKeyed(d, v) ELSE CoerceList(d, v)

\* Mutant of OnErrorAction: SKIP_ROW and unset raise like ERROR
OnErrorAction_SkipRowRaises(onError) ==
    CASE onError = SkipValue -> "null"
      [] onError \in {SkipRow, ""} -> "raise"
      [] onError = RaiseError -> "raise"
      [] OTHER -> "ignore"

\* Mutant of OnErrorAction: SKIP_VALUE drops the row like SKIP_ROW
OnErrorAction_SkipValueDrops(onError) ==
    CASE onError = SkipValue -> "drop"
      [] onError \in {SkipRow, ""} -> "drop"
      [] onError = RaiseError -> "raise"
      [] OTHER -> "ignore"

\* Mutant of OnErrorAction: ERROR drops the row like SKIP_ROW
OnErrorAction_RaiseDrops(onError) ==
    CASE onError = SkipValue -> "null"
      [] onError \in {SkipRow, ""} -> "drop"
      [] onError = RaiseError -> "drop"
      [] OTHER -> "ignore"

\* switch schema.OnError
OnErrorAction(onError) ==
    CASE onError = SkipValue -> "null"
      [] onError \in {SkipRow, ""} -> "drop"
      [] onError = RaiseError -> "raise"
      [] OTHER -> "ignore"

\* make(Record, len(m)): no key assigned
NoRecord == [f \in Fields |-> "unset"]

\* What one field left behind: its source value, what the type switch did,
\* and the descriptor's required flag and policy
Event(f, d, v, c) ==
    [field |-> f, v |-> v, required |-> d.Required, policy |-> d.OnError,
     type |-> d.Type, set |-> c.set, val |-> c.val, err |-> c.err, stop |-> c.stop]

\* The loop over the schema's fields, taken in the given order
RECURSIVE Walk(_, _, _, _, _, _)
Walk(var, m, s, order, out, events) ==
    IF order = <<>>
    THEN [kind |-> "out", out |-> out, events |-> events]
    ELSE LET f == Head(order)
             c == Coerce(var, s[f], m[f])
             evs == Append(events, Event(f, s[f], m[f], c))
             out1 == IF c.set THEN [out EXCEPT ![f] = c.val] ELSE out
             act == IF c.err = "none" THEN "keep" ELSE OnErrorAction(s[f].OnError)
         IN CASE c.stop = "panic" ->
                   [kind |-> "panic", out |-> NoRecord, events |-> evs]
              [] c.stop \notin {"none", "panic"} ->
                   [kind |-> "err", out |-> NoRecord, events |-> evs]
              [] c.stop = "none" /\ act = "null" ->
                   Walk(var, m, s, Tail(order), [out1 EXCEPT ![f] = "nil"], evs)
              [] c.stop = "none" /\ act = "drop" ->
                   [kind |-> "skip", out |-> NoRecord, events |-> evs]
              [] c.stop = "none" /\ act = "raise" ->
                   [kind |-> "err", out |-> NoRecord, events |-> evs]
              [] OTHER -> Walk(var, m, s, Tail(order), out1, evs)

\* for fieldName, schema := range s
TransformOne(m, s, order) == Walk("keyed", m, s, order, NoRecord, <<>>)

\* for i, sourceValue := range l
TransformOneList(l, os, order) == Walk("list", l, os, order, NoRecord, <<>>)

\* Go ranges over a map in an order of its choosing; the ordered schema of
\* the positional variant follows the upstream's column order
Orders(var) == IF var = "keyed" THEN {<<"a", "b">>, <<"b", "a">>} ELSE {<<"a", "b">>}

\* The sync pipeline is not running while a transform is studied alone
SyncIdle ==
    /\ pc = "transform"
    /\ fatal = FALSE
    /\ sodataCount = 0
    /\ NumRows = 0
    /\ pageSize = 1
    /\ WhereFilter = <<>>
    /\ maxCreated = NoTime
    /\ missing = 0
    /\ where = <<>>
    /\ queried = 0
    /\ n = 0
    /\ chunks = <<>>
    /\ throttle = 0
    /\ wg = 0
    /\ last = NoCall

\* A call of Transform or TransformDownload on a schema, before any token
TInit ==
    /\ SyncIdle
    /\ variant \in Variants
    /\ schema \in TableSchemas
    /\ tpc = "idle"
    /\ trows = 0
    /\ sink = <<>>
    /\ tlast = [row |-> 0]
    /\ terr = "nil"
    /\ skipped = 0
    /\ dpc = IF variant = "list" THEN "start" ELSE "none"
    /\ dres = [at |-> "none"]
    /\ HelpersIdle

\* The tokens (and, for a download, the metadata) ahead of the first record
TOpen ==
    /\ tpc = "idle"
    /\ variant = "list" => dpc = "stream"
    /\ \E ok \in BOOLEAN :
          /\ tpc' = IF ok THEN "rows" ELSE "failed"
          /\ terr' = IF ok THEN "nil" ELSE "initial token"
    /\ UNCHANGED <<besideTransform, dvars, skipped, variant, schema, trows, sink, tlast>>

\* Mutant of CountRow: the counter moves by two
CountRow_Twice(rows) == rows + 2

\* rows += 1
CountRow(rows) == rows + 1

\* Mutant of Encode: the record is written ahead of the earlier ones
Encode_AtFront(w, row) == <<row>> \o w

\* enc.Encode(mm): the record is written after what the sink holds
Encode(w, row) == Append(w, row)

\* One turn of the loop: a record is decoded, transformed and, when one
\* comes back, encoded to the sink
TRow ==
    /\ tpc = "rows"
    /\ trows < MaxRows
    /\ \E m \in Records(schema), order \in Orders(variant), encoded \in BOOLEAN :
          LET res == IF variant = "keyed" THEN TransformOne(m, schema, order)
                     ELSE TransformOneList(m, schema, order)
          IN /\ res.kind # "out" => encoded
             /\ trows' = CountRow(trows)
             /\ skipped' = IF res.kind = "skip" THEN skipped + 1 ELSE skipped
             /\ tlast' = [row |-> CountRow(trows), m |-> m, order |-> order, res |-> res]
             /\ sink' = IF res.kind = "out" /\ encoded
                        THEN Encode(sink, CountRow(trows)) ELSE sink
             /\ tpc' = CASE res.kind = "panic" -> "panicked"
                         [] res.kind = "err" -> "failed"
                         [] res.kind = "out" /\ ~encoded -> "failed"
                         [] OTHER -> "rows"
             /\ terr' = CASE res.kind = "panic" -> "nil"
                          [] res.kind = "err" -> "row"
                          [] res.kind = "out" /\ ~encoded -> "row"
                          [] OTHER -> "nil"
    /\ UNCHANGED <<besideTransform, dvars, variant, schema>>

\* dec.Decode fails on a record
TDecodeErr ==
    /\ tpc = "rows"
    /\ trows < MaxRows
    /\ trows' = CountRow(trows)
    /\ tpc' = "failed"
    /\ terr' = "row"
    /\ UNCHANGED <<besideTransform, dvars, skipped, variant, schema, sink, tlast>>

\* dec.More() is false: the closing tokens are read
TEnd ==
    /\ tpc = "rows"
    /\ \E ok \in BOOLEAN :
          /\ tpc' = IF ok THEN "done" ELSE "failed"
          /\ terr' = IF ok THEN "nil" ELSE "closing token"
    /\ UNCHANGED <<besideTransform, dvars, skipped, variant, schema, trows, sink, tlast>>

\* How a Download call that got past its fetch can go, given what
\* TransformDownload returned: the step that returns the error (or "none"),
\* the error, whether the staging object was written and whether it was
\* deleted
\* Mutant of DownloadOutcomes: the transform's error is logged and the load
\* goes ahead
DownloadOutcomes_LoadAfterError(rows, transformErr) ==
    {[at |-> "close", err |-> "other", staged |-> FALSE, deleted |-> FALSE]}
    \cup (IF rows # 0
          THEN {[at |-> "load", err |-> "other", staged |-> TRUE, deleted |-> FALSE]}
          ELSE {})
    \cup {[at |-> "delete", err |-> "other", staged |-> TRUE, deleted |-> FALSE],
          [at |-> "none", err |-> "nil", staged |-> TRUE, deleted |-> TRUE]}

DownloadOutcomes(rows, transformErr) ==
    \* download.go 56-63: gw.Close / w.Close
    {[at |-> "close", err |-> "other", staged |-> FALSE, deleted |-> FALSE]}
    \* download.go 65-67: transformErr
    \cup (IF transformErr # "nil"
          THEN {[at |-> "transform", err |-> transformErr, staged |-> TRUE, deleted |-> FALSE]}
          ELSE \* download.go 70-89: loader.Run, loadJob.Wait, status.Err
               (IF rows # 0
                THEN {[at |-> "load", err |-> "other", staged |-> TRUE, deleted |-> FALSE]}
                ELSE {})
               \* download.go 94-97: obj.Delete
               \cup {[at |-> "delete", err |-> "other", staged |-> TRUE, deleted |-> FALSE],
                     [at |-> "none", err |-> "nil", staged |-> TRUE, deleted |-> TRUE]})

\* What downloadOne does with Download's result (download.go 167-168):
\* whether it printed "done" and the exit code the process then ends with
Reported(o) == [at |-> o.at, err |-> o.err, staged |-> o.staged,
                deleted |-> o.deleted, done |-> TRUE, code |-> 0]

\* downloadOne calls Download, which fetches the export (download.go 22-41);
\* a failed fetch returns at once
DStart ==
    /\ dpc = "start"
    /\ \/ /\ dpc' = "stream"
          /\ UNCHANGED dres
       \/ /\ dpc' = "exited"
          /\ dres' = Reported([at |-> "do", err |-> "other",
                               staged |-> FALSE, deleted |-> FALSE])
    /\ UNCHANGED <<besideTransform, tvars>>

\* TransformDownload has returned: the rest of Download, and downloadOne's
\* last lines
DReturn ==
    /\ dpc = "stream"
    /\ tpc \in {"done", "failed"}
    /\ \E o \in DownloadOutcomes(trows, terr) :
          /\ dres' = Reported(o)
          /\ dpc' = "exited"
    /\ UNCHANGED <<besideTransform, tvars>>

TNext ==
    \/ TOpen
    \/ TRow
    \/ TDecodeErr
    \/ TEnd
    \/ DStart
    \/ DReturn

SpecTransform == TInit /\ [][TNext]_vars

\* ------------------------------------------------------------------------
\* Claims about the record transform
\* ------------------------------------------------------------------------

\* The per-field events of the record transformed last
LastEvents == IF tlast.row = 0 THEN <<>> ELSE tlast.res.events

\* A field of the result raised a per-field error under one of the policies
Raised(res, policies) ==
    \E i \in 1 .. Len(res.events) :
       res.events[i].err # "none" /\ res.events[i].policy \in policies

\* The field's step ended the record: a return or panic out of the type
\* switch, or a per-field error under a policy other than SKIP_VALUE
Ends(e) == e.stop # "none" \/ (e.err # "none" /\ e.policy # SkipValue)

\* C8: for every field descriptor with required = true, whatever its target
\* type, a source value that is null, absent or the empty string makes the
\* field's step raise the 'missing required field' error.
C8_RequiredAlwaysRaises ==
    \A i \in 1 .. Len(LastEvents) :
       LastEvents[i].required /\ LastEvents[i].v \in {"nil", "empty"}
          => LastEvents[i].err = "missing"

\* C9: when a field raises a per-field error and its on_error is SKIP_ROW or
\* unset, TransformOne / TransformOneList return no record and no error,
\* nothing is written to the sink for the row, and the stream goes on to the
\* next record without failing.
C9_SkipRowDropsRow ==
    [][ (tlast' # tlast /\ Raised(tlast'.res, {SkipRow, ""}))
          => /\ tlast'.res.kind = "skip"
             /\ sink' = sink
             /\ trows' = trows + 1
             /\ tpc' = "rows"
             /\ terr' = "nil" ]_vars

C9_Witness ==
    /\ variant = "list"
    /\ tlast.row = 2
    /\ Raised(tlast.res, {""})
    /\ tlast.res.kind = "skip"
    /\ sink = <<1>>
    /\ tpc = "rows"

\* C10: when a field raises a per-field error and its on_error is SKIP_VALUE,
\* the fields after it are still processed, and unless one of them drops or
\* fails the record, the record comes back holding null for the field and is
\* written to the sink.
C10_SkipValueStoresNull ==
    [][ tlast' # tlast =>
          LET res == tlast'.res
              evs == res.events
              all == Len(tlast'.order)
          IN \A i \in 1 .. Len(evs) :
                (evs[i].err # "none" /\ evs[i].policy = SkipValue) =>
                   /\ i < all => Len(evs) > i
                   /\ Len(evs) < all => Ends(evs[Len(evs)])
                   /\ (\A j \in (i + 1) .. Len(evs) : ~Ends(evs[j])) =>
                         /\ res.kind = "out"
                         /\ res.out[evs[i].field] = "nil"
                         /\ \/ sink' = Append(sink, tlast'.row) /\ tpc' = "rows"
                            \/ sink' = sink /\ tpc' = "failed" ]_vars

C10_Witness ==
    /\ tlast.row > 0
    /\ tlast.res.kind = "out"
    /\ Len(LastEvents) = 2
    /\ LastEvents[1].err = "parse"
    /\ LastEvents[1].policy = SkipValue
    /\ tlast.res.out[LastEvents[1].field] = "nil"
    /\ LastEvents[2].err = "none"
    /\ tlast.res.out[LastEvents[2].field] = "date"
    /\ Len(sink) > 0
    /\ sink[Len(sink)] = tlast.row

\* C11: when a field raises a per-field error and its on_error is ERROR, the
\* error comes back from TransformOne / TransformOneList and from the
\* stream: the count returned is the index of the failing row, the row is
\* not written to the sink, and no later row is decoded or encoded.
C11_RaiseAbortsStream ==
    [][ /\ (tlast' # tlast /\ Raised(tlast'.res, {RaiseError}))
            => /\ tlast'.res.kind = "err"
               /\ tpc' = "failed"
               /\ terr' = "row"
               /\ trows' = tlast'.row
               /\ sink' = sink
        /\ tpc = "failed" => UNCHANGED <<trows, sink, tlast, tpc, terr>> ]_vars

C11_Witness ==
    /\ tpc = "failed"
    /\ terr = "row"
    /\ trows = 2
    /\ tlast.row = 2
    /\ Raised(tlast.res, {RaiseError})
    /\ sink = <<1>>

\* ------------------------------------------------------------------------
\* Claims about CopyChunk, Download and ConcurrentLimit
\* ------------------------------------------------------------------------

\* C12: whenever a CopyChunk call returns without the process exiting
\* fatally, with nil or with an error, a staging object that the call wrote
\* has been deleted.
C12_StagingDeleted ==
    (last.c # 0 /\ ~fatal /\ Staged(last)) => Deleted(last)

\* C13: when Download returns an error, downloadOne does not report the run
\* as done and the process exits non-zero.
C13_DownloadErrorExitsNonZero ==
    (dpc = "exited" /\ dres.err # "nil") => (~dres.done /\ dres.code # 0)

\* ------------------------------------------------------------------------
\* ToTime on strings (transform.go 280-298)
\* ------------------------------------------------------------------------

\* Strings are sequences of one-character strings.

\* The time formats drawn: "0304p", "0304pm", "15:04", "3:04p", "3:04P",
\* "15:04:05", "0304PM". They use only the hour, minute, second and
\* meridiem elements of a Go layout.
TimeFormats ==
    { <<"0", "3", "0", "4", "p">>,
      <<"0", "3", "0", "4", "p", "m">>,
      <<"1", "5", ":", "0", "4">>,
      <<"3", ":", "0", "4", "p">>,
      <<"3", ":", "0", "4", "P">>,
      <<"1", "5", ":", "0", "4", ":", "0", "5">>,
      <<"0", "3", "0", "4", "P", "M">> }

\* The source strings drawn: "", "1001p", "1001P", "1001a", "1201a",
\* "1201p", "1001", "1001pm", "10:01", "9:05p", "9:05", "23:59", "24:00",
\* "1301p", "1060p", "10:01:07", "m", "0001p"
TimeStrings ==
    { <<>>,
      <<"1", "0", "0", "1", "p">>,
      <<"1", "0", "0", "1", "P">>,
      <<"1", "0", "0", "1", "a">>,
      <<"1", "2", "0", "1", "a">>,
      <<"1", "2", "0", "1", "p">>,
      <<"1", "0", "0", "1">>,
      <<"1", "0", "0", "1", "p", "m">>,
      <<"1", "0", ":", "0", "1">>,
      <<"9", ":", "0", "5", "p">>,
      <<"9", ":", "0", "5">>,
      <<"2", "3", ":", "5", "9">>,
      <<"2", "4", ":", "0", "0">>,
      <<"1", "3", "0", "1", "p">>,
      <<"1", "0", "6", "0", "p">>,
      <<"1", "0", ":", "0", "1", ":", "0", "7">>,
      <<"m">>,
      <<"0", "0", "0", "1", "p">> }

DigitChars == <<"0", "1", "2", "3", "4", "5", "6", "7", "8", "9">>

IsDigit(c) == \E i \in 1 .. 10 : DigitChars[i] = c

DigitVal(c) == (CHOOSE i \in 1 .. 10 : DigitChars[i] = c) - 1

\* strings.ToLower, on the letters the drawn strings hold
LowerChar(c) ==
    CASE c = "P" -> "p"
      [] c = "A" -> "a"
      [] c = "M" -> "m"
      [] OTHER -> c

ToLower(s) == [i \in 1 .. Len(s) |-> LowerChar(s[i])]

\* strings.HasSuffix(s, "p")
HasSuffixP(s) == Len(s) > 0 /\ s[Len(s)] = "p"

\* The layout element time.Parse finds at position i of a layout, and its
\* length; "none" when the character is literal text. Only the elements the
\* drawn formats can hold are told apart.
StdAt(layout, i) ==
    LET c == layout[i]
        nx == IF i < Len(layout) THEN layout[i + 1] ELSE ""
    IN CASE c = "0" /\ nx = "3" -> [std |-> "stdZeroHour12", len |-> 2]
         [] c = "0" /\ nx = "4" -> [std |-> "stdZeroMinute", len |-> 2]
         [] c = "0" /\ nx = "5" -> [std |-> "stdZeroSecond", len |-> 2]
         [] c = "1" /\ nx = "5" -> [std |-> "stdHour", len |-> 2]
         [] c = "3" -> [std |-> "stdHour12", len |-> 1]
         [] c = "4" -> [std |-> "stdMinute", len |-> 1]
         [] c = "5" -> [std |-> "stdSecond", len |-> 1]
         [] c = "p" /\ nx = "m" -> [std |-> "stdpm", len |-> 2]
         [] c = "P" /\ nx = "M" -> [std |-> "stdPM", len |-> 2]
         [] OTHER -> [std |-> "none", len |-> 1]

\* Position of the first layout element at or after i, 0 when there is none
RECURSIVE FindStd(_, _)
FindStd(layout, i) ==
    IF i > Len(layout) THEN 0
    ELSE IF StdAt(layout, i).std # "none" THEN i
    ELSE FindStd(layout, i + 1)

\* time's getnum: one or two leading digits, exactly two when fixed
GetNum(v, fixed) ==
    IF Len(v) = 0 \/ ~IsDigit(v[1]) THEN [ok |-> FALSE, n |-> 0, rest |-> v]
    ELSE IF Len(v) = 1 \/ ~IsDigit(v[2])
         THEN IF fixed THEN [ok |-> FALSE, n |-> 0, rest |-> v]
              ELSE [ok |-> TRUE, n |-> DigitVal(v[1]), rest |-> Tail(v)]
         ELSE [ok |-> TRUE, n |-> 10 * DigitVal(v[1]) + DigitVal(v[2]),
               rest |-> Tail(Tail(v))]

StartsWith(v, prefix) ==
    Len(v) >= Len(prefix) /\ SubSeq(v, 1, Len(prefix)) = prefix

\* A nil interface{} result has null set and no text
ParseError == [null |-> TRUE, val |-> <<>>, err |-> "parse"]

TwoDigits(k) == <<DigitChars[(k \div 10) + 1], DigitChars[(k % 10) + 1]>>

\* t.Format("15:04:05") once the meridiem is applied to the hour
Clock(t) ==
    LET hour == IF t.pm /\ t.hour < 12 THEN t.hour + 12
                ELSE IF t.am /\ t.hour = 12 THEN 0
                ELSE t.hour
    IN [null |-> FALSE,
        val |-> TwoDigits(hour) \o <<":">> \o TwoDigits(t.min) \o <<":">> \o TwoDigits(t.sec),
        err |-> "none"]

\* time.Parse: literal text is matched, each element is read from the value
RECURSIVE ParseFrom(_, _, _)
ParseFrom(layout, value, t) ==
    LET i == FindStd(layout, 1)
        prefix == IF i = 0 THEN layout ELSE SubSeq(layout, 1, i - 1)
        v == SubSeq(value, Len(prefix) + 1, Len(value))
    IN IF ~StartsWith(value, prefix) THEN ParseError
       ELSE IF i = 0 THEN (IF v # <<>> THEN ParseError ELSE Clock(t))
       ELSE LET e == StdAt(layout, i)
                rest == SubSeq(layout, i + e.len, Len(layout))
                g == GetNum(v, e.std \in {"stdZeroHour12", "stdZeroMinute", "stdZeroSecond"})
            IN CASE e.std = "stdHour" ->
                      IF g.ok /\ g.n < 24
                      THEN ParseFrom(rest, g.rest, [t EXCEPT !.hour = g.n])
                      ELSE ParseError
                 [] e.std \in {"stdHour12", "stdZeroHour12"} ->
                      IF g.ok /\ g.n <= 12
                      THEN ParseFrom(rest, g.rest, [t EXCEPT !.hour = g.n])
                      ELSE ParseError
                 [] e.std \in {"stdMinute", "stdZeroMinute"} ->
                      IF g.ok /\ g.n < 60
                      THEN ParseFrom(rest, g.rest, [t EXCEPT !.min = g.n])
                      ELSE ParseError
                 [] e.std \in {"stdSecond", "stdZeroSecond"} ->
                      IF g.ok /\ g.n < 60
                      THEN ParseFrom(rest, g.rest, [t EXCEPT !.sec = g.n])
                      ELSE ParseError
                 [] OTHER ->
                      LET pm == IF e.std = "stdpm" THEN <<"p", "m">> ELSE <<"P", "M">>
                          am == IF e.std = "stdpm" THEN <<"a", "m">> ELSE <<"A", "M">>
                      IN IF StartsWith(v, pm)
                         THEN ParseFrom(rest, Tail(Tail(v)), [t EXCEPT !.pm = TRUE])
                         ELSE IF StartsWith(v, am)
                         THEN ParseFrom(rest, Tail(Tail(v)), [t EXCEPT !.am = TRUE])
                         ELSE ParseError

Parse(layout, value) ==
    ParseFrom(layout, value, [hour |-> 0, min |-> 0, sec |-> 0, pm |-> FALSE, am |-> FALSE])

\* Mutant of ToTimeStr: a format ending in "p" is parsed as it stands
ToTimeStr_NoWiden(format, s) ==
    IF s = <<>> THEN [null |-> TRUE, val |-> <<>>, err |-> "none"]
    ELSE Parse(ToLower(format), ToLower(s))

\* ToTime(format, s) on strings
ToTimeStr(format, s) ==
    IF s = <<>> THEN [null |-> TRUE, val |-> <<>>, err |-> "none"]
    ELSE LET f == ToLower(format)
             v == ToLower(s)
         IN IF HasSuffixP(f)
            THEN Parse(f \o <<"m">>, v \o <<"m">>)
            ELSE Parse(f, v)

\* A ToTime call on a drawn format and string, before it is made
ToTimeInit ==
    /\ SyncIdle
    /\ TransformIdle
    /\ LimitIdle
    /\ \E f \in TimeFormats, str \in TimeStrings :
          tt = [called |-> FALSE, format |-> f, s |-> str]

ToTimeCall ==
    /\ ~tt.called
    /\ tt' = [called |-> TRUE, format |-> tt.format, s |-> tt.s,
              res |-> ToTimeStr(tt.format, tt.s)]
    /\ UNCHANGED <<syncvars, tvars, dvars, lvars>>

ToTimeNext == ToTimeCall

SpecToTime == ToTimeInit /\ [][ToTimeNext]_vars

\* C14 as stated: for every input s and every format f ending in "p",
\* ToTime(f, s) equals ToTime(f + "m", s + "m").
C14_WidenAll ==
    (tt.called /\ HasSuffixP(tt.format))
       => tt.res = ToTimeStr(tt.format \o <<"m">>, tt.s \o <<"m">>)

\* C14 as amended: for every input s other than the empty string and every
\* format f ending in "p", ToTime(f, s) equals ToTime(f + "m", s + "m"); a
\* successful parse is rendered HH:MM:SS on the 24-hour clock: "1001p" with
\* "0304p" gives "22:01:00", "10:01" with "15:04" gives "10:01:00".
C14_WidenNonEmpty ==
    /\ (tt.called /\ HasSuffixP(tt.format) /\ tt.s # <<>>)
          => tt.res = ToTimeStr(tt.format \o <<"m">>, tt.s \o <<"m">>)
    /\ (tt.called /\ tt.format = <<"0", "3", "0", "4", "p">>
                  /\ tt.s = <<"1", "0", "0", "1", "p">>)
          => tt.res = [null |-> FALSE, err |-> "none",
                       val |-> <<"2", "2", ":", "0", "1", ":", "0", "0">>]
    /\ (tt.called /\ tt.format = <<"1", "5", ":", "0", "4">>
                  /\ tt.s = <<"1", "0", ":", "0", "1">>)
          => tt.res = [null |-> FALSE, err |-> "none",
                       val |-> <<"1", "0", ":", "0", "1", ":", "0", "0">>]
    /\ (tt.called /\ tt.res.err = "none" /\ ~tt.res.null)
          => /\ Len(tt.res.val) = 8
             /\ 10 * DigitVal(tt.res.val[1]) + DigitVal(tt.res.val[2]) < 24

C14_Witness ==
    /\ tt.called
    /\ tt.format = <<"0", "3", "0", "4", "p">>
    /\ tt.s = <<"1", "0", "0", "1", "p">>
    /\ tt.res.err = "none"

\* ------------------------------------------------------------------------
\* Claims about ConcurrentLimit and the chunk goroutines
\* ------------------------------------------------------------------------

\* Chunks whose task body is executing
Executing == {c \in 1 .. Len(chunks) : chunks[c].st = "running"}

\* C15 as stated: in every reachable state the number of held slots equals
\* the number of task bodies currently executing, and when no task body is
\* executing no slot is held.
C15_SlotsEqualBodies ==
    /\ throttle = Cardinality(Executing)
    /\ Executing = {} => throttle = 0

\* C15 as amended: Run starts the task body only once it holds a slot and
\* releases one slot after the body returned: in every reachable state the
\* number of held slots equals the number of Run calls between acquisition
\* and release (bodies executing, or returned and not yet released), is
\* never smaller than the number of bodies executing, and is 0 when no Run
\* call is between acquisition and release.
C15_SlotsEqualCalls ==
    /\ throttle = Cardinality(Holding)
    /\ Executing \subseteq Holding
    /\ Cardinality(Executing) <= throttle
    /\ Holding = {} => throttle = 0

\* C15 witness: one body is executing, another has returned and its slot is
\* not yet released.
C15_Witness ==
    /\ throttle = 2
    /\ Cardinality(Executing) = 1
    /\ \E c \in 1 .. Len(chunks) : chunks[c].st = "finished"

\* ------------------------------------------------------------------------
\* A ConcurrentLimit on its own: callers of Run and RunWithTimeout
\* ------------------------------------------------------------------------

\* Number of goroutines that call the limiter.
MaxCallers == 3

\* Largest capacity NewConcurrentLimit is given.
MaxCap == 2

Callers == 1 .. MaxCallers

Modes == {"Run", "RunWithTimeout"}

\* A goroutine that has not called yet: st is its position, runs the number
\* of times its task ran, acq / rel the sends to and receives from c.c it
\* made, ret what its call returned
NewCaller == [st |-> "idle", mode |-> "Run", runs |-> 0, acq |-> 0, rel |-> 0, ret |-> "none"]

\* NewConcurrentLimit(n): an empty channel of capacity n
LInit ==
    /\ SyncIdle
    /\ TransformIdle
    /\ ToTimeIdle
    /\ lcap \in 0 .. MaxCap
    /\ lslots = 0
    /\ callers = [k \in Callers |-> NewCaller]

\* A goroutine calls Run(f) or RunWithTimeout(f, d) and reaches the send
LCall(k) ==
    /\ callers[k].st = "idle"
    /\ \E mode \in Modes :
          callers' = [callers EXCEPT ![k] = [@ EXCEPT !.st = "waiting", !.mode = mode]]
    /\ UNCHANGED <<syncvars, tvars, dvars, tt, lcap, lslots>>

\* c.c <- true goes through and f() starts
LAcquire(k) ==
    /\ callers[k].st = "waiting"
    /\ lslots < lcap
    /\ lslots' = lslots + 1
    /\ callers' = [callers EXCEPT ![k] =
                     [@ EXCEPT !.st = "running", !.acq = @ + 1, !.runs = @ + 1]]
    /\ UNCHANGED <<syncvars, tvars, dvars, tt, lcap>>

\* Mutant of LTimeout: the timed-out call receives from the channel
LTimeout_Receives(k) ==
    /\ callers[k].st = "waiting"
    /\ callers[k].mode = "RunWithTimeout"
    /\ lslots > 0
    /\ lslots' = lslots - 1
    /\ callers' = [callers EXCEPT ![k] =
                     [@ EXCEPT !.st = "returned", !.rel = @ + 1, !.ret = "timed out"]]
    /\ UNCHANGED <<syncvars, tvars, dvars, tt, lcap>>

\* case <-time.After(d): return errors.New("timed out")
LTimeout(k) ==
    /\ callers[k].st = "waiting"
    /\ callers[k].mode = "RunWithTimeout"
    /\ callers' = [callers EXCEPT ![k] = [@ EXCEPT !.st = "returned", !.ret = "timed out"]]
    /\ UNCHANGED <<syncvars, tvars, dvars, tt, lcap, lslots>>

\* f() returns
LBody(k) ==
    /\ callers[k].st = "running"
    /\ callers' = [callers EXCEPT ![k] = [@ EXCEPT !.st = "after"]]
    /\ UNCHANGED <<syncvars, tvars, dvars, tt, lcap, lslots>>

\* <-c.c, then the call returns (nil from RunWithTimeout)
LRelease(k) ==
    /\ callers[k].st = "after"
    /\ lslots' = lslots - 1
    /\ callers' = [callers EXCEPT ![k] =
                     [@ EXCEPT !.st = "returned", !.rel = @ + 1, !.ret = "nil"]]
    /\ UNCHANGED <<syncvars, tvars, dvars, tt, lcap>>

LNext ==
    \E k \in Callers :
       \/ LCall(k)
       \/ LAcquire(k)
       \/ LTimeout(k)
       \/ LBody(k)
       \/ LRelease(k)

SpecLimit == LInit /\ [][LNext]_vars

\* The timer of time.After(d) fires: a timed wait does not last for ever
SpecLimitFair == SpecLimit /\ \A k \in Callers : WF_vars(LTimeout(k))

\* Callers between the send to c.c and the receive from it
LHolding == {k \in Callers : callers[k].st \in {"running", "after"}}

\* What holds of RunWithTimeout calls in every state
TimedCallsExact ==
    /\ lslots = Cardinality(LHolding)
    /\ \A k \in Callers :
          callers[k].mode = "RunWithTimeout" =>
             /\ callers[k].st = "returned" => callers[k].ret \in {"nil", "timed out"}
             /\ callers[k].ret = "timed out" =>
                   /\ callers[k].st = "returned"
                   /\ callers[k].runs = 0
                   /\ callers[k].acq = 0
                   /\ callers[k].rel = 0
             /\ callers[k].ret = "nil" =>
                   /\ callers[k].st = "returned"
                   /\ callers[k].runs = 1
                   /\ callers[k].acq = 1
                   /\ callers[k].rel = 1

\* C16: RunWithTimeout either acquires a slot, runs the task exactly once,
\* releases the slot and returns nil, or returns the 'timed out' error
\* without ever running the task and without holding or releasing a slot;
\* a call waiting for a slot does not wait for ever.
C16_RunOrTimeOut ==
    /\ []TimedCallsExact
    /\ \A k \in Callers :
          (callers[k].st = "waiting" /\ callers[k].mode = "RunWithTimeout")
             ~> (callers[k].st # "waiting")

\* C16 witness: one timed call gave up while the slots were taken, another
\* ran its task and returned nil.
C16_Witness ==
    /\ lcap > 0
    /\ \E k \in Callers :
          /\ callers[k].mode = "RunWithTimeout"
          /\ callers[k].ret = "timed out"
    /\ \E k \in Callers :
          /\ callers[k].mode = "RunWithTimeout"
          /\ callers[k].ret = "nil"
    /\ lslots = lcap

\* C17: "Sync Complete" is reported only after every chunk that was
\* dispatched has completed: once the top-level wait has returned, no chunk
\* is waiting for a slot or executing its body, whatever the interleaving.
C17_CompleteAfterChunks ==
    pc = "complete" =>
        /\ ~fatal
        /\ wg = 0
        /\ \A c \in 1 .. Len(chunks) : chunks[c].st \in {"finished", "done"}

\* C17 witness: the wait returned after several chunks ran to their end.
C17_Witness ==
    /\ pc = "complete"
    /\ Len(chunks) >= 2
    /\ \A c \in 1 .. Len(chunks) : chunks[c].st \in {"finished", "done"}

\* Place of a step in the order fetch, transcode, close, load, delete
Rank(step) ==
    CASE step = "fetch" -> 1
      [] step = "transform" -> 2
      [] step = "close" -> 3
      [] step = "load" -> 4
      [] step = "delete" -> 5

\* The step is among those the last CopyChunk call ran
Ran(step) == \E k \in 1 .. Len(last.steps) : last.steps[k] = step

\* C18: within one CopyChunk call the steps run in the order fetch,
\* transcode, close, load, delete. The load is started only after Transform
\* returned no error and the writers were closed without error, and it
\* appends that chunk's own staging object; the object is deleted only after
\* the load job ended without error, or after zero rows with no load started.
C18_StepOrder ==
    last.c # 0 =>
        /\ \A j, k \in 1 .. Len(last.steps) :
              j < k => Rank(last.steps[j]) < Rank(last.steps[k])
        /\ Ran("load") =>
              /\ Ran("fetch") /\ Ran("transform") /\ Ran("close")
              /\ last.at \notin {"do", "status", "transform", "close"}
              /\ last.queued
              /\ last.load.started
              /\ last.load.object = last.staging
              /\ last.load.object = chunks[last.c].offset
              /\ last.load.disposition = "WriteAppend"
        /\ ~Ran("load") => ~last.load.started
        /\ Ran("delete") =>
              \/ Ran("load") /\ last.at # "load"
              \/ ~Ran("load") /\ ~last.queued /\ last.at \in {"delete", "none"}

\* C18 witness: a call that loaded its staging object and then deleted it.
C18_Witness ==
    /\ last.c # 0
    /\ last.steps = <<"fetch", "transform", "close", "load", "delete">>
    /\ last.err = "nil"

\* ------------------------------------------------------------------------
\* Claims about the stream as a whole
\* ------------------------------------------------------------------------

\* The sink holds rows of the input in their order of arrival
InArrivalOrder(w) ==
    /\ \A j, k \in 1 .. Len(w) : j < k => w[j] < w[k]
    /\ \A j \in 1 .. Len(w) : w[j] \in 1 .. trows

\* C19: the records in the sink are, in the same relative order, the
\* transformed images of the input records that were not skipped; a kept
\* record is encoded before the next input record is decoded.
C19_OrderPreserved ==
    [][ /\ InArrivalOrder(sink)'
        /\ sink' # sink =>
              /\ tlast'.row = trows + 1
              /\ trows' = trows + 1
              /\ tlast'.res.kind = "out"
              /\ sink' = Append(sink, tlast'.row)
        /\ (tlast' # tlast /\ tlast'.res.kind = "out" /\ tpc' = "rows") =>
              (Len(sink') > 0 /\ sink'[Len(sink')] = tlast'.row)
        /\ (tlast' # tlast /\ tlast'.res.kind # "out") => sink' = sink ]_vars

\* C19 witness: a row was skipped between two rows that were kept (with
\* MaxRows at 2: a kept row after a skipped one).
C19_Witness ==
    /\ Len(sink) > 0
    /\ sink[Len(sink)] = trows
    /\ skipped > 0
    /\ tlast.row = trows
    /\ tlast.res.kind = "out"

\* C20: the count returned is the number of records decoded so far, skipped
\* ones included, with the first error no policy resolved; on a stream that
\* was processed to its end the count is the number of records and the sink
\* holds that number less the skipped ones.
C20_CountsEveryRow ==
    [][ /\ trows' # trows => (tpc = "rows" /\ trows' = trows + 1)
        /\ tlast' # tlast => (trows' = trows + 1 /\ tlast'.row = trows')
        /\ skipped' # skipped =>
              (skipped' = skipped + 1 /\ trows' = trows + 1 /\ tlast'.res.kind = "skip")
        /\ tpc' \in {"rows", "done"} =>
              (terr' = "nil" /\ Len(sink') = trows' - skipped')
        /\ tpc' = "failed" =>
              (terr' # "nil" /\ Len(sink') + skipped' <= trows')
        /\ tpc = "failed" => (trows' = trows /\ terr' = terr) ]_vars

\* C20 witness: a stream read to its end in which a row was skipped.
C20_Witness ==
    /\ tpc = "done"
    /\ trows = 2
    /\ skipped = 1
    /\ Len(sink) = 1

\* ------------------------------------------------------------------------
\* Claims about the type switch
\* ------------------------------------------------------------------------

\* C21: an unhandled source type / target type pair fails with the
\* 'unhandled conversion' error and the field's on_error policy decides the
\* outcome: under SKIP_ROW or unset only the row is abandoned, under ERROR
\* the error is returned.
C21_PolicyDecidesUnhandled ==
    \A i \in 1 .. Len(LastEvents) :
       LastEvents[i].stop = "unhandled conversion" =>
          /\ LastEvents[i].policy \in {SkipRow, ""} =>
                tlast.res.kind = "skip"
          /\ LastEvents[i].policy = RaiseError => tlast.res.kind = "err"

\* The target types the type switch of a variant has a case for
KnownTypes(var) ==
    IF var = "keyed"
    THEN {"NUMERIC", "STRING", "GEOGRAPHY", "DATE", "TIME", "TIMESTAMP"}
    ELSE {"NUMERIC", "FLOAT", "STRING", "GEOGRAPHY", "DATE", "TIME", "TIMESTAMP",
          "DATETIME", "BOOLEAN"}

\* The error TransformOne / TransformOneList returned for a record
ReturnedError(res) ==
    LET e == res.events[Len(res.events)]
    IN IF e.stop # "none" THEN e.stop ELSE e.err

\* How errors.Is(err, io.EOF) sees an error built by the transform of one
\* record: fmt.Errorf texts and the parse errors of strconv and time, none
\* of which wraps io.EOF
ErrorClass(e) == IF e = "none" THEN "nil" ELSE "other"

\* The field processed last in a result
LastEvent(res) == res.events[Len(res.events)]

\* C22: a descriptor with an unknown target type aborts the run whatever its
\* on_error policy: the 'unhandled BigQuery type' error is returned, the
\* stream stops at that row, and in sync mode the error is not taken for a
\* transient one, so the chunk is not retried.
C22_UnknownTypeAborts ==
    [][ (tlast' # tlast /\ LastEvent(tlast'.res).type \notin KnownTypes(variant)) =>
           /\ tlast'.res.kind = "err"
           /\ ReturnedError(tlast'.res) = "unhandled type"
           /\ tpc' = "failed"
           /\ terr' = "row"
           /\ trows' = tlast'.row
           /\ sink' = sink
           /\ \A i \in 0 .. (MaxTries - 1) :
                 Verdict(i, ErrorClass(ReturnedError(tlast'.res))) = "fatal" ]_vars

\* C22 witness: the stream failed on a field of unknown type whose policy is
\* SKIP_ROW.
C22_Witness ==
    /\ tpc = "failed"
    /\ tlast.row > 0
    /\ trows = tlast.row
    /\ tlast.res.kind = "err"
    /\ LastEvent(tlast.res).type \notin KnownTypes(variant)
    /\ LastEvent(tlast.res).policy = SkipRow

\* C23: the keyed and the positional variant apply the same per-field rules:
\* for every field descriptor and source value met, both type switches give
\* the same outcome (same stored value or absence, same error, same return).
C23_SameFieldRules ==
    \A i \in 1 .. Len(LastEvents) :
       CoerceKeyed(schema[LastEvents[i].field], LastEvents[i].v)
          = CoerceList(schema[LastEvents[i].field], LastEvents[i].v)

\* C24: for a TIME field an empty-string source value gives null with no
\* error when the field is not required, and raises the 'missing required
\* field' error when it is required.
C24_TimeEmptyString ==
    \A i \in 1 .. Len(LastEvents) :
       (LastEvents[i].type = "TIME" /\ LastEvents[i].v = "empty") =>
          IF LastEvents[i].required
          THEN LastEvents[i].err = "missing"
          ELSE /\ LastEvents[i].err = "none"
               /\ LastEvents[i].stop = "none"
               /\ LastEvents[i].set
               /\ LastEvents[i].val = "nil"

\* C25: a NUMERIC target field never raises 'missing required field': for
\* every source value its case stores a value, stores nothing or raises a
\* parse error, and a required NUMERIC field whose source is null neither
\* drops the row nor fails the call (the row's outcome is then the other
\* field's).
C25_NumericNeverMissing ==
    /\ \A i \in 1 .. Len(LastEvents) :
          LastEvents[i].type = "NUMERIC" =>
             /\ LastEvents[i].err \in {"none", "parse"}
             /\ LastEvents[i].stop = "none"
             /\ (LastEvents[i].v = "nil" => LastEvents[i].err = "none")
    /\ ( /\ tlast.row > 0
         /\ schema["a"].Type = "NUMERIC"
         /\ schema["a"].Required
         /\ tlast.m["a"] = "nil"
         /\ tlast.m["b"] = "ok" )
       => tlast.res.kind = "out"

C25_Witness ==
    /\ tlast.row > 0
    /\ schema["a"].Type = "NUMERIC"
    /\ schema["a"].Required
    /\ schema["a"].OnError = RaiseError
    /\ tlast.m["a"] = "nil"
    /\ tlast.res.kind = "out"
    /\ sink # <<>>

\* C26: the keyed transform's outcome for a record (populated record, no
\* output, or propagated error) is a function of the record and the schema
\* alone: whatever order the fields were taken in, the call gives the same
\* outcome, also when several fields fail under different policies.
C26_KeyedDeterministic ==
    (variant = "keyed" /\ tlast.row > 0) =>
       \A o \in Orders("keyed") :
          /\ TransformOne(tlast.m, schema, o).kind = tlast.res.kind
          /\ TransformOne(tlast.m, schema, o).out = tlast.res.out

\* ------------------------------------------------------------------------
\* Claims about staging objects and load jobs
\* ------------------------------------------------------------------------

C28_RetryNeverReloads ==
    (last.c # 0 /\ IsEOF(last.err)) => ~Loaded(last)

\* The call got as far as loader.Run: it failed in the load, or went past
\* the rows != 0 branch with rows to load
LoadStarted ==
    /\ dpc = "exited"
    /\ \/ dres.at = "load"
       \/ dres.at \in {"delete", "none"} /\ trows # 0

\* C29: a transform that ended with an error (a decode failure, a truncated
\* stream, an error raised under ERROR) is never followed by a load: the
\* load job is started only when the transform returned no error and
\* counted at least one row, and after an error the call returns from the
\* close or the transformErr check with the partial object unloaded.
C29_NoLoadAfterTransformError ==
    /\ LoadStarted => (terr = "nil" /\ tpc = "done" /\ trows # 0)
    /\ (dpc = "exited" /\ dres.at # "do" /\ terr # "nil") =>
          /\ dres.at \in {"close", "transform"}
          /\ dres.err # "nil"

\* C29 witness: the transform failed after rows had been written to the
\* staging object, and the call returned the transform's error
C29_Witness ==
    /\ dpc = "exited"
    /\ terr # "nil"
    /\ sink # <<>>
    /\ dres.at = "transform"
    /\ dres.staged

\* ------------------------------------------------------------------------
\* Progress of the sync pipeline
\* ------------------------------------------------------------------------

\* The Go scheduler runs some goroutine whenever one can take a step, and
\* every CopyChunk attempt returns. No step undoes another (counters and
\* task states only move forward), so this is all the fairness progress
\* needs: a run stops only where no goroutine can move.
SpecFair == Spec /\ WF_vars(Next)

\* Where the c-th dispatched task is: "none" before wg.Add and go
StateOf(c) == IF c <= Len(chunks) THEN chunks[c].st ELSE "none"

\* syncOne has returned, every dispatched task has run its body and
\* given its slot back
Quiescent ==
    /\ pc \in {"complete", "returned"}
    /\ \A c \in 1 .. MaxChunks : StateOf(c) \in {"none", "done"}
    /\ throttle = 0

SyncCompletesAfterDispatch == (pc = "wait") ~> (fatal \/ Quiescent)

\* The dispatch loop is held at the model's chunk bound only when its
\* counter has come back to an offset it already dispatched, that is when
\* the loop of sync.go 141 never ends
StuckOnlyWhenLooping ==
    (pc = "dispatch" /\ Len(chunks) = MaxChunks /\ n < missing) =>
       \E c \in 1 .. Len(chunks) : chunks[c].offset = n

====
